---- MODULE Spec2Model ----
(***************************************************************************)
(* check_placement.py: audit of the placement service for instances that   *)
(* hold allocations on more than one resource provider, and the optional   *)
(* repair that rewrites the allocation of such an instance to the provider *)
(* the compute service reports as its hypervisor.                          *)
(*                                                                         *)
(* main() is modelled as a sequential process: pc names the loop it is in  *)
(* and idx the position in that loop.  Python dicts are modelled as        *)
(* sequences of [k, v] pairs in insertion order (the order .items() walks).*)
(* self.session is the keystoneauth session of the cloud                   *)
(* (cloud.keystone_session): a request that fails raises, and nothing in   *)
(* main() catches an exception.                                            *)
(***************************************************************************)
EXTENDS Integers, Sequences, FiniteSets, TLC

\* Bounds of the model.
NumProviders == 3
NumInstances == 2
MaxRuns == 2

\* uuids of the resource providers and of the instances.
Providers == 1..NumProviders
Instances == 1..NumInstances

\* Python's None.
None == "None"

\* Names a resource provider may carry, and hypervisor hostnames the compute
\* service may report ("hostB" is the name of no provider).
ProviderNames == {"hostA", "hosta"}
Hostnames == {"hostA", "hostB"}

VARIABLES
    db,         \* placement service: instance uuid -> (provider uuid -> allocation)
    start,      \* what db was when the current run began
    rp,         \* placement service: provider uuid -> provider name
    repair,     \* args.repair
    limit,      \* args.limit
    run,        \* number of the current invocation of main()
    pc,         \* where main() is
    idx,        \* position in the loop pc names
    listing,    \* the provider listing main() iterates over
    providers,  \* main: providers
    tally,      \* main: tally
    multiple,   \* main: multiple
    stdout,     \* lines print() wrote
    log,        \* records handed to LOG
    calls,      \* PUT /allocations requests of this run, in order
    error,      \* the call whose exception ended the run, or None
    prevCalls   \* PUT /allocations requests of the earlier runs

vars == <<db, start, rp, repair, limit, run, pc, idx, listing, providers, tally,
          multiple, stdout, log, calls, error, prevCalls>>

----------------------------------------------------------------------------
\* dicts: sequences of [k |-> key, v |-> value] without repeated keys.

Keys(d) == {d[n].k : n \in DOMAIN d}

Has(d, key) == key \in Keys(d)

Get(d, key) == d[CHOOSE n \in DOMAIN d : d[n].k = key].v

\* d[key] = value
Put(d, key, value) ==
    IF Has(d, key)
    THEN [n \in DOMAIN d |-> IF d[n].k = key THEN [k |-> key, v |-> value] ELSE d[n]]
    ELSE Append(d, [k |-> key, v |-> value])

\* The elements of a set of integers, ascending.
RECURSIVE Ascending(_)
Ascending(S) ==
    IF S = {} THEN <<>>
    ELSE LET m == CHOOSE x \in S : \A y \in S : x <= y
         IN <<m>> \o Ascending(S \ {m})

\* All orders in which the elements of S can be listed.
Orders(S) ==
    {s \in [1..Cardinality(S) -> S] : \A a, b \in DOMAIN s : s[a] = s[b] => a = b}

----------------------------------------------------------------------------
\* The placement service.

\* The resources of the allocation the service holds for instance i on provider p.
Resources(i, p) == [VCPU |-> p, MEMORY_MB |-> i]

\* GET /resource_providers/{uuid}/allocations, when the service holds `held`.
ProviderAllocations(held, uuid) ==
    LET on == Ascending({i \in Instances : uuid \in DOMAIN held[i]})
    IN [allocations |-> [n \in DOMAIN on |-> [k |-> on[n], v |-> held[on[n]][uuid]]]]

\* PUT /allocations/{instance_uuid}: the instance's allocations become those of data.
PutAllocations(held, data) ==
    LET new == {data.allocations[n].resource_provider.uuid : n \in DOMAIN data.allocations}
    IN [p \in new |->
          [resources |->
              data.allocations[CHOOSE n \in DOMAIN data.allocations :
                  data.allocations[n].resource_provider.uuid = p].resources]]

----------------------------------------------------------------------------
\* Placement.set_allocation: the request body.

SetAllocationData(allocation) ==
    [allocations |->
        << [resource_provider |-> [uuid |-> allocation.provider.uuid],
            resources |-> allocation.allocation.resources] >>]

----------------------------------------------------------------------------
\* main: building the tally.

\* The mutated form starts the instance's dict afresh for every provider.
MergeAllocationFresh(t, instance_uuid, provider_uuid, allocation) ==
    Put(t, instance_uuid, Put(<<>>, provider_uuid, allocation))

\* if instance_uuid not in tally: tally[instance_uuid] = {}
\* tally[instance_uuid][provider['uuid']] = allocation
MergeAllocation(t, instance_uuid, provider_uuid, allocation) ==
    LET inner == IF Has(t, instance_uuid) THEN Get(t, instance_uuid) ELSE <<>>
    IN Put(t, instance_uuid, Put(inner, provider_uuid, allocation))

\* The inner loop over allocations['allocations'].items().
RECURSIVE MergeProvider(_, _, _)
MergeProvider(t, provider_uuid, items) ==
    IF items = <<>> THEN t
    ELSE MergeProvider(
             MergeAllocation(t, Head(items).k, provider_uuid, Head(items).v),
             provider_uuid, Tail(items))

----------------------------------------------------------------------------
\* main: auditing.

\* The mutated form audits every instance, listed or not.
SelectedAnyway(lim, instance_uuid) == TRUE

\* not (args.limit and instance_uuid not in args.limit)
Selected(lim, instance_uuid) == ~(lim # {} /\ instance_uuid \notin lim)

\* The mutated forms move the threshold.
HasMultipleFromOne(allocations) == Len(allocations) >= 1
HasMultipleFromThree(allocations) == Len(allocations) > 2

\* len(allocations) > 1
HasMultiple(allocations) == Len(allocations) > 1

\* Lower-casing of the names of the model.
Lower(s) == IF s = "hostA" THEN "hosta" ELSE IF s = "hostB" THEN "hostb" ELSE s

\* The mutated form compares without regard to case.
IsActiveAnyCase(provider, current_hypervisor) ==
    Lower(provider.name) = Lower(current_hypervisor)

\* provider['name'] == current_hypervisor
IsActive(provider, current_hypervisor) == provider.name = current_hypervisor

\* The record main stores in multiple[instance_uuid].
Info(instance_uuid, allocations, current_hypervisor) ==
    [uuid |-> instance_uuid,
     active |-> current_hypervisor,
     allocations |->
        [n \in DOMAIN allocations |->
            [provider |-> Get(providers, allocations[n].k),
             active |-> IsActive(Get(providers, allocations[n].k), current_hypervisor),
             allocation |-> allocations[n].v]]]

----------------------------------------------------------------------------
\* main: the report.

\* mark = '*' if allocation['active'] else '-'
Mark(active) == IF active THEN "*" ELSE "-"

\* The lines printed for one instance.
ReportLines(info) ==
    <<[line |-> "uuid", uuid |-> info.uuid]>> \o
    [n \in DOMAIN info.allocations |->
        [line |-> "mark", uuid |-> info.uuid,
         mark |-> Mark(info.allocations[n].active),
         name |-> info.allocations[n].provider.name]]

\* The loop over multiple.items().
RECURSIVE Report(_)
Report(m) == IF m = <<>> THEN <<>> ELSE ReportLines(Head(m).v) \o Report(Tail(m))

----------------------------------------------------------------------------
\* main: the repair.

ActiveIndexes(allocations) == {n \in DOMAIN allocations : allocations[n].active}

\* The mutated forms: no break; the last active entry; the first entry when none
\* is active.
ToSetEveryActive(allocations) ==
    LET act == Ascending(ActiveIndexes(allocations))
    IN [n \in DOMAIN act |-> allocations[act[n]]]
ToSetLastActive(allocations) ==
    IF ActiveIndexes(allocations) = {} THEN <<>>
    ELSE <<allocations[CHOOSE n \in ActiveIndexes(allocations) :
                          \A o \in ActiveIndexes(allocations) : o <= n]>>
ToSetWithFallback(allocations) ==
    IF ActiveIndexes(allocations) = {} THEN <<allocations[1]>>
    ELSE <<allocations[CHOOSE n \in ActiveIndexes(allocations) :
                          \A o \in ActiveIndexes(allocations) : n <= o]>>

\* The entries the inner loop hands to set_allocation: it breaks after the first
\* active one.
RECURSIVE ToSet(_)
ToSet(allocations) ==
    IF allocations = <<>> THEN <<>>
    ELSE IF Head(allocations).active THEN <<Head(allocations)>>
    ELSE ToSet(Tail(allocations))

----------------------------------------------------------------------------
\* Control.

\* The mutated form goes on where the call stood.
UncaughtSwallowed(resume) == resume

\* An exception nothing catches ends main().
Uncaught(resume) == "aborted"

\* pc and idx after position i of a loop over n items that is followed by `after`.
LoopPc(loop, i, n, after) == IF i < n THEN loop ELSE after
LoopIdx(i, n) == IF i < n THEN i + 1 ELSE 1

\* A loop over nothing is passed over.
AfterFetch(t) == IF t = <<>> THEN "report" ELSE "audit"
AfterReport(m) == IF repair /\ m # <<>> THEN "repair" ELSE "done"

\* LOG.info('auditing allocations'), once the loop over the providers is left.
LogAuditing(l, to) ==
    IF to \in {"audit", "report"}
    THEN Append(l, [level |-> "INFO", msg |-> "auditing allocations"])
    ELSE l

----------------------------------------------------------------------------
TypeOK ==
    /\ pc \in {"list", "fetch", "audit", "report", "repair", "done", "aborted"}
    /\ run \in 1..MaxRuns
    /\ repair \in BOOLEAN
    /\ limit \subseteq Instances

Init ==
    /\ \E held \in [Instances -> SUBSET Providers] :
          db = [i \in Instances |-> [p \in held[i] |-> [resources |-> Resources(i, p)]]]
    /\ start = db
    /\ rp \in [Providers -> ProviderNames]
    /\ repair \in BOOLEAN
    /\ limit \in SUBSET Instances
    /\ run = 1
    /\ pc = "list"
    /\ idx = 1
    /\ listing = <<>>
    /\ providers = <<>>
    /\ tally = <<>>
    /\ multiple = <<>>
    /\ stdout = <<>>
    /\ log = <<>>
    /\ calls = <<>>
    /\ error = None
    /\ prevCalls = <<>>

\* placement.list_resource_providers() answers.
ListProviders ==
    /\ pc = "list"
    /\ \E order \in Orders(Providers) :
          listing' = [n \in DOMAIN order |-> [uuid |-> order[n], name |-> rp[order[n]]]]
    /\ pc' = "fetch"
    /\ idx' = 1
    /\ log' = Append(log, [level |-> "INFO", msg |-> "getting resource allocations"])
    /\ UNCHANGED <<db, start, rp, repair, limit, run, providers, tally, multiple, stdout,
                   calls, error, prevCalls>>

\* placement.list_resource_providers() fails: the GET of the keystoneauth session
\* raises for a failed response (raise_exc is on unless a caller turns it off).
ListProvidersFails ==
    /\ pc = "list"
    /\ error' = "list_resource_providers"
    /\ pc' = Uncaught(AfterFetch(tally))
    /\ log' = LogAuditing(
          Append(log, [level |-> "INFO", msg |-> "getting resource allocations"]), pc')
    /\ UNCHANGED <<db, start, rp, repair, limit, run, idx, listing, providers, tally,
                   multiple, stdout, calls, prevCalls>>

\* One pass of the loop over the providers.
FetchProvider ==
    /\ pc = "fetch"
    /\ LET provider == listing[idx]
           allocations == ProviderAllocations(db, provider.uuid)
       IN /\ providers' = Put(providers, provider.uuid, provider)
          /\ tally' = MergeProvider(tally, provider.uuid, allocations.allocations)
    /\ pc' = LoopPc("fetch", idx, Len(listing), AfterFetch(tally'))
    /\ idx' = LoopIdx(idx, Len(listing))
    /\ log' = LogAuditing(log, pc')
    /\ UNCHANGED <<db, start, rp, repair, limit, run, listing, multiple, stdout,
                   calls, error, prevCalls>>

\* placement.get_resource_provider_allocations() fails: the GET raises, after the
\* provider was entered in providers.
FetchProviderFails ==
    /\ pc = "fetch"
    /\ providers' = Put(providers, listing[idx].uuid, listing[idx])
    /\ error' = "get_resource_provider_allocations"
    /\ pc' = Uncaught(LoopPc("fetch", idx, Len(listing), AfterFetch(tally)))
    /\ idx' = IF pc' = "aborted" THEN idx ELSE LoopIdx(idx, Len(listing))
    /\ log' = LogAuditing(log, pc')
    /\ UNCHANGED <<db, start, rp, repair, limit, run, listing, tally, multiple, stdout,
                   calls, prevCalls>>

\* One pass of the audit loop over an instance that is not listed in a non-empty
\* args.limit, or that has no more than one allocation.
AuditPasses ==
    /\ pc = "audit"
    /\ ~(Selected(limit, tally[idx].k) /\ HasMultiple(tally[idx].v))
    /\ pc' = LoopPc("audit", idx, Len(tally), "report")
    /\ idx' = LoopIdx(idx, Len(tally))
    /\ UNCHANGED <<db, start, rp, repair, limit, run, listing, providers, tally, multiple,
                   stdout, log, calls, error, prevCalls>>

\* One pass of the audit loop over an instance with multiple allocations;
\* cloud_api.get_server() answers with a server that has current_hypervisor as
\* its hypervisor_hostname, or with no server (None).
AuditMultiple ==
    /\ pc = "audit"
    /\ Selected(limit, tally[idx].k)
    /\ HasMultiple(tally[idx].v)
    /\ \E current_hypervisor \in Hostnames \cup {None} :
          multiple' = Put(multiple, tally[idx].k,
                          Info(tally[idx].k, tally[idx].v, current_hypervisor))
    /\ log' = Append(log, [level |-> "INFO", msg |-> "has multiple allocations",
                           uuid |-> tally[idx].k])
    /\ pc' = LoopPc("audit", idx, Len(tally), "report")
    /\ idx' = LoopIdx(idx, Len(tally))
    /\ UNCHANGED <<db, start, rp, repair, limit, run, listing, providers, tally, stdout,
                   calls, error, prevCalls>>

\* cloud_api.get_server() fails.
GetServerFails ==
    /\ pc = "audit"
    /\ Selected(limit, tally[idx].k)
    /\ HasMultiple(tally[idx].v)
    /\ log' = Append(log, [level |-> "INFO", msg |-> "has multiple allocations",
                           uuid |-> tally[idx].k])
    /\ error' = "get_server"
    /\ pc' = "aborted"
    /\ UNCHANGED <<db, start, rp, repair, limit, run, idx, listing, providers, tally,
                   multiple, stdout, calls, prevCalls>>

\* The loop that prints the instances of multiple.
PrintReport ==
    /\ pc = "report"
    /\ stdout' = stdout \o Report(multiple)
    /\ pc' = AfterReport(multiple)
    /\ idx' = 1
    /\ UNCHANGED <<db, start, rp, repair, limit, run, listing, providers, tally, multiple,
                   log, calls, error, prevCalls>>

\* The requests set_allocation sends for the entries of to_set, in order; the one
\* at position failing (if any) is answered with an error status.
Requests(instance_uuid, to_set, failing) ==
    [n \in DOMAIN to_set |->
        [uuid |-> instance_uuid, data |-> SetAllocationData(to_set[n]),
         ok |-> n # failing]]

\* LOG.warning('setting allocation for ...'), once for each request.
Warnings(instance_uuid, to_set) ==
    [n \in DOMAIN to_set |->
        [level |-> "WARNING", msg |-> "setting allocation", uuid |-> instance_uuid]]

\* What the service holds for the instance once it has answered the requests.
RECURSIVE Served(_, _)
Served(held, requests) ==
    IF requests = <<>> THEN held
    ELSE Served(IF Head(requests).ok THEN PutAllocations(held, Head(requests).data)
                ELSE held,
                Tail(requests))

\* One pass of the repair loop over an instance none of whose entries is active.
RepairNothing ==
    /\ pc = "repair"
    /\ ToSet(multiple[idx].v.allocations) = <<>>
    /\ pc' = LoopPc("repair", idx, Len(multiple), "done")
    /\ idx' = LoopIdx(idx, Len(multiple))
    /\ UNCHANGED <<db, start, rp, repair, limit, run, listing, providers, tally, multiple,
                   stdout, log, calls, error, prevCalls>>

\* One pass of the repair loop in which placement.set_allocation() succeeds.
RepairInstance ==
    /\ pc = "repair"
    /\ LET instance_uuid == multiple[idx].k
           to_set == ToSet(multiple[idx].v.allocations)
           requests == Requests(instance_uuid, to_set, 0)
       IN /\ to_set # <<>>
          /\ log' = log \o Warnings(instance_uuid, to_set)
          /\ calls' = calls \o requests
          /\ db' = [db EXCEPT ![instance_uuid] = Served(@, requests)]
    /\ pc' = LoopPc("repair", idx, Len(multiple), "done")
    /\ idx' = LoopIdx(idx, Len(multiple))
    /\ UNCHANGED <<start, rp, repair, limit, run, listing, providers, tally, multiple,
                   stdout, error, prevCalls>>

\* One pass of the repair loop in which the PUT of placement.set_allocation()
\* fails: the service keeps what it held and the exception ends main().
RepairFails ==
    /\ pc = "repair"
    /\ LET instance_uuid == multiple[idx].k
           to_set == ToSet(multiple[idx].v.allocations)
       IN \E failing \in DOMAIN to_set :
             LET requests == SubSeq(Requests(instance_uuid, to_set, failing), 1, failing)
             IN /\ log' = log \o SubSeq(Warnings(instance_uuid, to_set), 1, failing)
                /\ calls' = calls \o requests
                /\ db' = [db EXCEPT ![instance_uuid] = Served(@, requests)]
    /\ error' = "set_allocation"
    /\ pc' = "aborted"
    /\ UNCHANGED <<start, rp, repair, limit, run, idx, listing, providers, tally,
                   multiple, stdout, prevCalls>>

\* main() is run again, with any arguments, on what the services hold now.
RunAgain ==
    /\ pc \in {"done", "aborted"}
    /\ run < MaxRuns
    /\ run' = run + 1
    /\ prevCalls' = prevCalls \o calls
    /\ pc' = "list"
    /\ idx' = 1
    /\ listing' = <<>>
    /\ providers' = <<>>
    /\ tally' = <<>>
    /\ multiple' = <<>>
    /\ stdout' = <<>>
    /\ log' = <<>>
    /\ calls' = <<>>
    /\ error' = None
    /\ repair' \in BOOLEAN
    /\ limit' \in SUBSET Instances
    /\ start' = db
    /\ UNCHANGED <<db, rp>>

Next ==
    \/ ListProviders
    \/ ListProvidersFails
    \/ FetchProvider
    \/ FetchProviderFails
    \/ AuditPasses
    \/ AuditMultiple
    \/ GetServerFails
    \/ PrintReport
    \/ RepairNothing
    \/ RepairInstance
    \/ RepairFails

Spec == Init /\ [][Next]_vars

NextAgain == Next \/ RunAgain

SpecAgain == Init /\ [][NextAgain]_vars
----------------------------------------------------------------------------
\* Properties.

\* Positions in calls of the requests for instance i.
CallsFor(i) == {n \in DOMAIN calls : calls[n].uuid = i}

\* The position of the first active entry of a record, 0 if none is active.
FirstActive(info) ==
    IF ActiveIndexes(info.allocations) = {} THEN 0
    ELSE CHOOSE n \in ActiveIndexes(info.allocations) :
            \A o \in ActiveIndexes(info.allocations) : n <= o

\* The read phase is over: the tally is complete.
TallyBuilt == pc \in {"audit", "report", "repair", "done"}

\* The tally holds allocations for i on more than one provider.
InConflict(i) == Has(tally, i) /\ Cardinality(Keys(Get(tally, i))) > 1

\* args.limit lets instance i through.
Listed(i) == limit = {} \/ i \in limit

\* The lines of the report that are about instance i.
LinesOf(i) == SelectSeq(stdout, LAMBDA l : l.uuid = i)

\* The report shows the record: its uuid, then one marked line per entry.
Reported(info) ==
    /\ Len(LinesOf(info.uuid)) = 1 + Len(info.allocations)
    /\ LinesOf(info.uuid)[1] = [line |-> "uuid", uuid |-> info.uuid]
    /\ \A n \in DOMAIN info.allocations :
          LinesOf(info.uuid)[n + 1] =
             [line |-> "mark", uuid |-> info.uuid,
              mark |-> IF info.allocations[n].active THEN "*" ELSE "-",
              name |-> rp[info.allocations[n].provider.uuid]]

\* A tally as a mapping instance uuid -> (provider uuid -> allocation).
AsMapping(t) ==
    [i \in Keys(t) |-> [p \in Keys(Get(t, i)) |-> Get(Get(t, i), p)]]

\* The tally the loop over the providers builds when it is handed them in `order`.
RECURSIVE TallyIn(_, _)
TallyIn(order, held) ==
    IF order = <<>> THEN <<>>
    ELSE MergeProvider(TallyIn(SubSeq(order, 1, Len(order) - 1), held),
                       order[Len(order)],
                       ProviderAllocations(held, order[Len(order)]).allocations)

\* C1: in one run set_allocation is called at most once for an instance, failed
\* calls included.
C1_AtMostOneCall == \A i \in Instances : Cardinality(CallsFor(i)) <= 1

\* C1 witness: the one call for an instance with two active entries failed and
\* the run is over.
C1_Witness ==
    /\ pc = "aborted"
    /\ \E n \in DOMAIN calls :
          /\ ~calls[n].ok
          /\ Cardinality(ActiveIndexes(Get(multiple, calls[n].uuid).allocations)) > 1

\* C2: every call writes exactly one allocation, the provider uuid and the
\* resources of the first active entry of the instance's record, and it is the
\* only call for that instance.
C2_FirstActiveWritten ==
    \A n \in DOMAIN calls :
        LET info == Get(multiple, calls[n].uuid)
            first == FirstActive(info)
        IN /\ first # 0
           /\ Len(calls[n].data.allocations) = 1
           /\ calls[n].data.allocations[1].resource_provider.uuid =
                 info.allocations[first].provider.uuid
           /\ calls[n].data.allocations[1].resources =
                 info.allocations[first].allocation.resources
           /\ CallsFor(calls[n].uuid) = {n}

\* C2 witness: a call for a record whose first entry is inactive and whose other
\* two entries are both active.
C2_Witness ==
    \E n \in DOMAIN calls :
        LET info == Get(multiple, calls[n].uuid)
        IN /\ calls[n].ok
           /\ ~info.allocations[1].active
           /\ Cardinality(ActiveIndexes(info.allocations)) > 1

\* C3: set_allocation is called for i only with --repair, with a tally that has
\* i on more than one provider and with i let through by --limit; for any other
\* instance the service holds at every moment what it held when the run began.
C3_OnlyWhenSelected ==
    \A i \in Instances :
        ~(repair /\ InConflict(i) /\ Listed(i)) =>
            /\ CallsFor(i) = {}
            /\ db[i] = start[i]

\* C3 witness: a repair run that wrote for a listed instance ended, and left
\* alone an instance that is in conflict and has an active entry but is not listed.
C3_Witness ==
    /\ pc = "done"
    /\ \E i, j \in Instances :
          /\ CallsFor(i) # {}
          /\ InConflict(j)
          /\ j \notin limit
          /\ \E p \in DOMAIN start[j] : rp[p] = "hostA"
          /\ db[j] = start[j]

\* C4 as claimed: once a call of set_allocation has failed, the run still ends
\* with a call for every record that has an active entry.
C4_ContinuesAfterFailure ==
    (pc \in {"done", "aborted"} /\ \E n \in DOMAIN calls : ~calls[n].ok) =>
        \A m \in DOMAIN multiple :
            ActiveIndexes(multiple[m].v.allocations) # {} => CallsFor(multiple[m].k) # {}

\* C5: a failed read of the provider listing or of a provider's allocations ends
\* the run: no record is classified, nothing is printed, no call is made.
C5_ReadFailureAborts ==
    error \in {"list_resource_providers", "get_resource_provider_allocations"} =>
        /\ pc = "aborted"
        /\ multiple = <<>>
        /\ stdout = <<>>
        /\ calls = <<>>

\* C5 witness: the read of a provider's allocations failed with --repair set,
\* when the tally already held an instance that the service has on two providers.
C5_Witness ==
    /\ error = "get_resource_provider_allocations"
    /\ repair
    /\ \E i \in Instances : Has(tally, i) /\ Cardinality(DOMAIN db[i]) > 1 /\ Listed(i)

\* A message that tells the operator the repair of i was passed over.
Unresolved(i) ==
    \/ \E n \in DOMAIN log : log[n] = [level |-> "WARNING", msg |-> "unresolved", uuid |-> i]
    \/ \E n \in DOMAIN stdout : stdout[n] = [line |-> "unresolved", uuid |-> i]

C7_ActiveIffNameEqual ==
    \A m \in DOMAIN multiple :
        LET info == multiple[m].v
        IN /\ \A n \in DOMAIN info.allocations :
                 /\ info.allocations[n].provider.name = rp[info.allocations[n].provider.uuid]
                 /\ info.allocations[n].active <=>
                       (info.active # None /\ rp[info.allocations[n].provider.uuid] = info.active)
           /\ info.active = None => ActiveIndexes(info.allocations) = {}
           /\ Cardinality(ActiveIndexes(info.allocations)) <=
                 Cardinality({n \in DOMAIN info.allocations :
                                 info.allocations[n].provider.name = info.active})

\* C7 witness: a record with hypervisor "hostA", one entry on a provider named
\* "hostA" and one on a provider named "hosta".
C7_Witness ==
    \E m \in DOMAIN multiple :
        /\ multiple[m].v.active = "hostA"
        /\ \E a, b \in DOMAIN multiple[m].v.allocations :
              /\ multiple[m].v.allocations[a].provider.name = "hostA"
              /\ multiple[m].v.allocations[b].provider.name = "hosta"

\* C8: whatever the order of the provider listing, the tally is, as a mapping,
\* the one built from the listing in ascending order of uuid.
C8_TallyOrderIndependent ==
    TallyBuilt => AsMapping(tally) = AsMapping(TallyIn(Ascending(Providers), start))

\* C8 witness: a tally built from a listing in descending order, with an
\* instance that has allocations on all providers.
C8_Witness ==
    /\ TallyBuilt
    /\ \A n \in DOMAIN listing : listing[n].uuid = NumProviders + 1 - n
    /\ \E i \in Instances : Has(tally, i) /\ Keys(Get(tally, i)) = Providers

\* C9: an instance for which an earlier run's call succeeded is found by a later
\* run with exactly the allocation that call wrote, gets no record and no call.
C9_RepairedStaysRepaired ==
    \A n \in DOMAIN prevCalls :
        prevCalls[n].ok =>
            LET i == prevCalls[n].uuid
                written == prevCalls[n].data.allocations[1]
            IN /\ TallyBuilt =>
                     /\ Has(tally, i)
                     /\ AsMapping(tally)[i] =
                           [p \in {written.resource_provider.uuid} |->
                               [resources |-> written.resources]]
               /\ ~Has(multiple, i)
               /\ CallsFor(i) = {}

\* C9 witness: a second run with --repair and the instance let through by
\* --limit has ended, after a first run whose call for the instance succeeded.
C9_Witness ==
    /\ run = 2
    /\ pc = "done"
    /\ repair
    /\ \E n \in DOMAIN prevCalls : prevCalls[n].ok /\ Listed(prevCalls[n].uuid)

\* C10 as claimed: once the report is printed, every instance the tally has on
\* more than one provider has a record and its lines in the report.
C10_EveryConflictReported ==
    pc \in {"repair", "done"} =>
        \A i \in Instances :
            InConflict(i) => Has(multiple, i) /\ Reported(Get(multiple, i))

\* C10 as amended: once the report is printed, the instances with a record and
\* lines in the report are those the tally has on more than one provider and that
\* --limit lets through; any other instance has no record and no line.
C10_ListedConflictsReported ==
    pc \in {"repair", "done"} =>
        \A i \in Instances :
            IF InConflict(i) /\ Listed(i)
            THEN Has(multiple, i) /\ Reported(Get(multiple, i))
            ELSE ~Has(multiple, i) /\ LinesOf(i) = <<>>

\* C10 witness: the report is printed for a run with a non-empty --limit, one
\* instance in conflict that is listed and one in conflict that is not.
C10_Witness ==
    /\ pc = "done"
    /\ \E i, j \in Instances :
          /\ InConflict(i) /\ i \in limit /\ Has(multiple, i)
          /\ InConflict(j) /\ j \notin limit
====
